---- MODULE Spec2Model ----
(***************************************************************************)
(* The orchestrator of woff (woff/menus/main_menu.py, MainMenu): the host  *)
(* registry self.hosts guarded by self.hosts_lock, the operator's command  *)
(* handlers running on the main thread, and _reconnect_callback running on *)
(* the HostWatcher thread, inside run() (woff/woff.py), which sets up and   *)
(* tears down the qdisc root handle and IP forwarding around the menu.     *)
(* The four workers (ARPSpoofer, Limiter,                                  *)
(* BandwidthMonitor, HostWatcher), Host and HostScanner are not part of    *)
(* the available sources; their per-host state is modelled from the        *)
(* specification (sections 3 and 4).                                       *)
(***************************************************************************)
EXTENDS Integers, Sequences, FiniteSets, TLC

\* Bound on len(self.hosts): the longest registry a scan or manual adds build.
MaxHosts == 2
\* Bound on the number of comma-separated identifiers in one ids string.
MaxIds == 1

\* The hosts of the specification's reconnect scenario (section 8): A, and
\* A's hardware address seen at another address.
HostA == [ip |-> "10.0.0.5", mac |-> "aa:01"]
HostA9 == [ip |-> "10.0.0.9", mac |-> "aa:01"]

\* Host identity: (address, hardwareAddress); equality is equality of both.
Host == {HostA, HostA9}
IPs == {h.ip : h \in Host}
MACs == {h.mac : h \in Host}
NoHost == [ip |-> "-", mac |-> "-"]

VARIABLES
    hosts,       \* self.hosts: the registry, a list of Host
    hosts_lock,  \* self.hosts_lock: "free" or the thread holding it
    spoofed,     \* ARPSpoofer's host set (host.spoofed is membership in it)
    limited,     \* Limiter's hosts with a shaping or block rule
    monitored,   \* BandwidthMonitor's hosts with a sample entry
    watched,     \* HostWatcher's watch set
    pc,          \* position of each thread
    cmd,         \* main: the command whose handler is running
    sel,         \* main: hosts resolved / collected by the running handler
    idx,         \* main: position of a "for host in self.hosts" iterator
    cb_old,      \* watcher: old_host of the running callback
    cb_new,      \* watcher: new_host of the running callback
    cb_log,      \* watcher: what the running callback has done so far, in order
    migrated,    \* history: the old hosts a callback has migrated so far
    was_spoofed, \* history: old_host was spoofed when the callback swapped it
                 \* out; kept until the callback has called ARPSpoofer.add
    env,         \* run(): what the platform answers at startup
    running,     \* the worker threads started and not yet told to stop
    qdisc,       \* the qdisc root handle exists
    ipfwd,       \* IP forwarding is enabled
    an_hosts,    \* _analyze_handler: hosts (the resolved hosts)
    hosts_to_be_freed, \* _analyze_handler: hosts_to_be_freed
    an_host,     \* _analyze_handler: host (the first loop's variable)
    cleanups,    \* history: how many times the host cleanup pass has begun
    command,     \* CommandMenu.start: command.split(), the tokens typed
    stage,       \* CommandMenu.start: where the processing of command is
    parsed,      \* what self.parser.parse returned, and the handlers it invoked
    direction,   \* the direction _block_handler last computed
    watch_cfg    \* HostWatcher's settings: interval and iprange

vars == <<hosts, hosts_lock, spoofed, limited, monitored, watched,
          pc, cmd, sel, idx, cb_old, cb_new, cb_log, migrated, was_spoofed,
          env, running, qdisc, ipfwd, an_hosts, hosts_to_be_freed, an_host,
          cleanups, command, stage, parsed, direction, watch_cfg>>
workers == <<spoofed, limited, monitored, watched>>
mainLocals == <<cmd, sel, idx>>
cbLocals == <<cb_old, cb_new, cb_log, migrated, was_spoofed>>
runVars == <<env, running, qdisc, ipfwd>>
anLocals == <<an_hosts, hosts_to_be_freed, an_host>>
cmdVars == <<command, stage, parsed, direction, watch_cfg>>

Range(s) == {s[i] : i \in 1..Len(s)}

\* list.index(x): the first position holding a value equal to x.
IndexOf(s, x) == CHOOSE i \in 1..Len(s) : s[i] = x /\ \A j \in 1..(i - 1) : s[j] # x

\* Sequences over S of length at most n.
SeqUpTo(S, n) == UNION {[1..k -> S] : k \in 0..n}

NoDup(s) == \A i, j \in 1..Len(s) : i # j => s[i] # s[j]

\* What run() finds: the platform, the effective user, whether
\* process_arguments resolves the interface and gateway, and whether
\* create_qdisc_root and enable_ip_forwarding succeed.
Env == [linux : BOOLEAN, privileged : BOOLEAN, args_ok : BOOLEAN,
        qdisc_ok : BOOLEAN, fwd_ok : BOOLEAN]

\* The worker threads MainMenu.__init__ starts.
Workers == {"arp_spoofer", "bandwidth_monitor", "host_watcher"}

\* The values of a parse result's fields: None, True, False or a token.
None == [kind |-> "None", val |-> ""]
True == [kind |-> "bool", val |-> "True"]
False == [kind |-> "bool", val |-> "False"]
Str(t) == [kind |-> "str", val |-> t]

\* What parse gives when it returns None: no result, no handler invoked.
NoResult == [ok |-> FALSE, fields |-> <<>>, handled |-> <<>>]

\* Direction, a bit flag: BOTH is OUTGOING | INCOMING and NONE is empty.
NONE == {}
OUTGOING == {"OUTGOING"}
INCOMING == {"INCOMING"}
BOTH == OUTGOING \cup INCOMING
\* No direction has been computed.
NoDirection == {"-"}

Init ==
    /\ hosts = <<>>
    /\ hosts_lock = "free"
    /\ spoofed = {}
    /\ limited = {}
    /\ monitored = {}
    /\ watched = {}
    /\ pc = [main |-> "run", watcher |-> "idle"]
    /\ cmd = "none"
    /\ sel = {}
    /\ idx = 0
    /\ cb_old = NoHost
    /\ cb_new = NoHost
    /\ cb_log = <<>>
    /\ migrated = {}
    /\ was_spoofed = FALSE
    /\ env \in Env
    /\ running = {}
    /\ qdisc = FALSE
    /\ ipfwd = FALSE
    /\ an_hosts = {}
    /\ hosts_to_be_freed = {}
    /\ an_host = NoHost
    /\ cleanups = 0
    /\ command = <<>>
    /\ stage = "off"
    /\ parsed = NoResult
    /\ direction = NoDirection
    /\ watch_cfg = [interval |-> 1, iprange |-> "None"]

Goto(t, l) == pc' = [pc EXCEPT ![t] = l]

(***************************************************************************)
(* The workers' per-host state (specification, sections 4.2 - 4.5).  A     *)
(* worker operation is atomic: every worker serialises its own calls.      *)
(***************************************************************************)
W == [spoofed |-> spoofed, limited |-> limited,
      monitored |-> monitored, watched |-> watched]

SetWorkers(w) ==
    /\ spoofed' = w.spoofed
    /\ limited' = w.limited
    /\ monitored' = w.monitored
    /\ watched' = w.watched

\* ARPSpoofer.add(host): untracked -> spoofing; idempotent.
ARPSpooferAdd(w, h) == [w EXCEPT !.spoofed = @ \cup {h}]
\* ARPSpoofer.remove(host, restore): spoofing -> untracked; restore only
\* decides whether corrective replies are sent.
ARPSpooferRemove(w, h, restore) == [w EXCEPT !.spoofed = @ \ {h}]
\* Limiter.limit / Limiter.block: install a rule for the host.
LimiterLimit(w, h) == [w EXCEPT !.limited = @ \cup {h}]
\* Limiter.unlimit(host, BOTH): remove whatever rule exists.
LimiterUnlimit(w, h) == [w EXCEPT !.limited = @ \ {h}]
\* Limiter.replace(old, new): re-key every existing rule of old to new.
LimiterReplace(w, old, new) ==
    IF old \in w.limited THEN [w EXCEPT !.limited = (@ \ {old}) \cup {new}] ELSE w
BandwidthMonitorAdd(w, h) == [w EXCEPT !.monitored = @ \cup {h}]
BandwidthMonitorRemove(w, h) == [w EXCEPT !.monitored = @ \ {h}]
\* BandwidthMonitor.replace(old, new): move old's samples to new.
BandwidthMonitorReplace(w, old, new) ==
    IF old \in w.monitored THEN [w EXCEPT !.monitored = (@ \ {old}) \cup {new}] ELSE w
HostWatcherAdd(w, h) == [w EXCEPT !.watched = @ \cup {h}]
HostWatcherRemove(w, h) == [w EXCEPT !.watched = @ \ {h}]

\* MainMenu._free_host(host)
FreeHost(w, h) ==
    IF h \in w.spoofed
    THEN HostWatcherRemove(
           BandwidthMonitorRemove(
             LimiterUnlimit(
               ARPSpooferRemove(w, h, TRUE), h), h), h)
    ELSE w

(***************************************************************************)
(* The watcher thread: HostWatcher's loop and MainMenu._reconnect_callback *)
(***************************************************************************)
Call(op, old, new, restore) ==
    [op |-> op, old |-> old, new |-> new, restore |-> restore]

\* Faulty variant: ARPSpoofer.add(new) before ARPSpoofer.remove(old).
CallbackCalls_AddFirst(old, new) ==
    << Call("arp_spoofer.add", NoHost, new, FALSE),
       Call("arp_spoofer.remove", old, NoHost, FALSE),
       Call("host_watcher.remove", old, NoHost, FALSE),
       Call("host_watcher.add", NoHost, new, FALSE),
       Call("limiter.replace", old, new, FALSE),
       Call("bandwidth_monitor.replace", old, new, FALSE) >>

\* Faulty variant: ARPSpoofer.remove(old) with its default restore=True.
CallbackCalls_Restore(old, new) ==
    << Call("arp_spoofer.remove", old, NoHost, TRUE),
       Call("arp_spoofer.add", NoHost, new, FALSE),
       Call("host_watcher.remove", old, NoHost, FALSE),
       Call("host_watcher.add", NoHost, new, FALSE),
       Call("limiter.replace", old, new, FALSE),
       Call("bandwidth_monitor.replace", old, new, FALSE) >>

\* The worker calls of _reconnect_callback after the critical section.
CallbackCalls(old, new) ==
    << Call("arp_spoofer.remove", old, NoHost, FALSE),
       Call("arp_spoofer.add", NoHost, new, FALSE),
       Call("host_watcher.remove", old, NoHost, FALSE),
       Call("host_watcher.add", NoHost, new, FALSE),
       Call("limiter.replace", old, new, FALSE),
       Call("bandwidth_monitor.replace", old, new, FALSE) >>

ApplyCall(w, c) ==
    CASE c.op = "arp_spoofer.remove" -> ARPSpooferRemove(w, c.old, c.restore)
      [] c.op = "arp_spoofer.add" -> ARPSpooferAdd(w, c.new)
      [] c.op = "host_watcher.remove" -> HostWatcherRemove(w, c.old)
      [] c.op = "host_watcher.add" -> HostWatcherAdd(w, c.new)
      [] c.op = "limiter.replace" -> LimiterReplace(w, c.old, c.new)
      [] c.op = "bandwidth_monitor.replace" -> BandwidthMonitorReplace(w, c.old, c.new)
      [] c.op = "limiter.limit" -> LimiterLimit(w, c.new)
      [] c.op = "bandwidth_monitor.add" -> BandwidthMonitorAdd(w, c.new)

\* The workers after the first k calls of a sequence of calls.
RECURSIVE AfterCalls(_, _, _)
AfterCalls(w, calls, k) ==
    IF k = 0 THEN w ELSE ApplyCall(AfterCalls(w, calls, k - 1), calls[k])

\* The worker calls the running callback has made so far.
WorkerCallsOf(log) == SelectSeq(log, LAMBDA c : c.op # "hosts.swap")

\* HostWatcher's cycle: a response shares a watched host's hardware address
\* and reports a different address; the callback is invoked with (old, new).
WatcherDetect ==
    /\ pc["watcher"] = "idle"
    /\ "host_watcher" \in running
    /\ \E old \in watched, new \in Host :
         /\ new.mac = old.mac
         /\ new.ip # old.ip
         /\ cb_old' = old
         /\ cb_new' = new
    /\ cb_log' = <<>>
    /\ Goto("watcher", "cb_lock")
    /\ UNCHANGED <<hosts, hosts_lock, workers, mainLocals, migrated, was_spoofed>>
    /\ UNCHANGED <<runVars, anLocals>>
    /\ UNCHANGED <<cleanups, cmdVars>>

\* with self.hosts_lock:
CbAcquire ==
    /\ pc["watcher"] = "cb_lock"
    /\ hosts_lock = "free"
    /\ hosts_lock' = "watcher"
    /\ Goto("watcher", "cb_cs")
    /\ UNCHANGED <<hosts, workers, mainLocals, cbLocals>>
    /\ UNCHANGED <<runVars, anLocals>>
    /\ UNCHANGED <<cleanups, cmdVars>>

\* Faulty variant: no "else: return"; the worker calls follow whether or not old
\* was registered.
CbSwap_NoReturn ==
    /\ pc["watcher"] = "cb_cs"
    /\ hosts_lock' = "free"
    /\ IF cb_old \in Range(hosts)
       THEN hosts' = [hosts EXCEPT ![IndexOf(hosts, cb_old)] = cb_new]
       ELSE hosts' = hosts
    /\ cb_log' = <<Call("hosts.swap", cb_old, cb_new, FALSE)>>
    /\ migrated' = migrated \cup {cb_old}
    /\ was_spoofed' = (cb_old \in spoofed)
    /\ Goto("watcher", "cb_calls")
    /\ UNCHANGED <<workers, mainLocals, cb_old, cb_new>>
    /\ UNCHANGED <<runVars, anLocals>>
    /\ UNCHANGED <<cleanups, cmdVars>>

\* if old_host in self.hosts: self.hosts[self.hosts.index(old_host)] = new_host
\* else: return
CbSwap ==
    /\ pc["watcher"] = "cb_cs"
    /\ hosts_lock' = "free"
    /\ IF cb_old \in Range(hosts)
       THEN /\ hosts' = [hosts EXCEPT ![IndexOf(hosts, cb_old)] = cb_new]
            /\ cb_log' = <<Call("hosts.swap", cb_old, cb_new, FALSE)>>
            /\ migrated' = migrated \cup {cb_old}
            /\ was_spoofed' = (cb_old \in spoofed)
            /\ Goto("watcher", "cb_calls")
            /\ UNCHANGED <<cb_old, cb_new>>
       ELSE /\ hosts' = hosts
            /\ migrated' = migrated
            /\ cb_log' = <<>>
            /\ cb_old' = NoHost
            /\ cb_new' = NoHost
            /\ was_spoofed' = FALSE
            /\ Goto("watcher", "idle")
    /\ UNCHANGED <<workers, mainLocals>>
    /\ UNCHANGED <<runVars, anLocals>>
    /\ UNCHANGED <<cleanups, cmdVars>>

\* The next worker call of the callback, outside the lock.
CbCall ==
    /\ pc["watcher"] = "cb_calls"
    /\ LET calls == CallbackCalls(cb_old, cb_new)
           k == Len(WorkerCallsOf(cb_log)) + 1
       IN /\ k <= Len(calls)
          /\ SetWorkers(ApplyCall(W, calls[k]))
          /\ cb_log' = Append(cb_log, calls[k])
          /\ was_spoofed' = (was_spoofed /\ calls[k].op # "arp_spoofer.add")
          /\ Goto("watcher", IF k = Len(calls) THEN "cb_return" ELSE "cb_calls")
    /\ UNCHANGED <<hosts, hosts_lock, mainLocals, cb_old, cb_new, migrated>>
    /\ UNCHANGED <<runVars, anLocals>>
    /\ UNCHANGED <<cleanups, cmdVars>>

\* The callback returns; HostWatcher continues its loop.
CbReturn ==
    /\ pc["watcher"] = "cb_return"
    /\ cb_old' = NoHost
    /\ cb_new' = NoHost
    /\ cb_log' = <<>>
    /\ Goto("watcher", "idle")
    /\ UNCHANGED <<hosts, hosts_lock, workers, mainLocals, migrated, was_spoofed>>
    /\ UNCHANGED <<runVars, anLocals>>
    /\ UNCHANGED <<cleanups, cmdVars>>

WatcherStep == WatcherDetect \/ CbAcquire \/ CbSwap \/ CbCall \/ CbReturn

(***************************************************************************)
(* Identifier resolution: MainMenu._get_hosts_by_ids                       *)
(***************************************************************************)
Digits == {ToString(n) : n \in 0..MaxHosts}
\* A string of digit characters that are not decimal digits, such as the
\* superscript two: str.isdigit() is true of it, int() raises ValueError.
NonDecimalDigits == {"sup2"}
\* The identifiers an operator types: indices, addresses, hardware
\* addresses, the word all, and something malformed.
Tokens == Digits \cup NonDecimalDigits \cup IPs \cup MACs \cup {"all", "x"}
IdsStrings == UNION {[1..k -> Tokens] : k \in 1..MaxIds}

IsMac(t) == t \in MACs
IsIp(t) == t \in IPs
\* id_.isdigit()
IsDigit(t) == t \in Digits \cup NonDecimalDigits
\* int(id_) raises ValueError
IntRaises(t) == t \notin Digits
\* int(id_)
IntOf(t) == CHOOSE n \in 0..MaxHosts : ToString(n) = t

\* One identifier: the host it names in hs, or NoHost when it names none.
ResolveId(t, hs) ==
    IF IsMac(t) \/ IsIp(t)
    THEN IF \E i \in 1..Len(hs) : hs[i].mac = t \/ hs[i].ip = t
         THEN hs[CHOOSE i \in 1..Len(hs) :
                   /\ (hs[i].mac = t \/ hs[i].ip = t)
                   /\ \A j \in 1..(i - 1) : ~(hs[j].mac = t \/ hs[j].ip = t)]
         ELSE NoHost
    ELSE IF IsDigit(t) /\ ~IntRaises(t)
         THEN IF Len(hs) = 0 \/ IntOf(t) \notin 0..(Len(hs) - 1)
              THEN NoHost
              ELSE hs[IntOf(t) + 1]
         ELSE NoHost

\* The identifier at which the loop over ids stops: int(id_) raises there.
RaisesAt(t) == ~IsMac(t) /\ ~IsIp(t) /\ IsDigit(t) /\ IntRaises(t)

\* [ok |-> FALSE] stands for the None the method returns after IO.error,
\* raised for the ValueError of int(id_) leaving the method.  The
\* identifiers are looked at in order; the first bad one ends the loop.
GetHostsByIds(ids, hs) ==
    IF ids = <<"all">>
    THEN [ok |-> TRUE, raised |-> FALSE, hosts |-> Range(hs)]
    ELSE IF \E k \in 1..Len(ids) : ResolveId(ids[k], hs) = NoHost
         THEN LET k == CHOOSE i \in 1..Len(ids) :
                         /\ ResolveId(ids[i], hs) = NoHost
                         /\ \A j \in 1..(i - 1) : ResolveId(ids[j], hs) # NoHost
              IN [ok |-> FALSE, raised |-> RaisesAt(ids[k]), hosts |-> {}]
         ELSE [ok |-> TRUE, raised |-> FALSE,
               hosts |-> {ResolveId(ids[k], hs) : k \in 1..Len(ids)}]

(***************************************************************************)
(* The main thread: run() (woff.py)                                        *)
(***************************************************************************)
mainFrame == <<hosts, hosts_lock, workers, mainLocals, cbLocals, anLocals>>

\* run() up to initialize: is_linux, is_privileged, process_arguments.
RunChecks ==
    /\ pc["main"] = "run"
    /\ Goto("main", IF env.linux /\ env.privileged /\ env.args_ok
                    THEN "initialize" ELSE "returned")
    /\ UNCHANGED <<mainFrame, runVars>>
    /\ UNCHANGED <<cleanups, cmdVars>>

\* Faulty variant: the result of enable_ip_forwarding is not looked at.
RunInitialize_IgnoresForwarding ==
    /\ pc["main"] = "initialize"
    /\ IF ~env.qdisc_ok
       THEN /\ Goto("main", "returned")
            /\ UNCHANGED <<qdisc, ipfwd>>
       ELSE /\ qdisc' = TRUE
            /\ ipfwd' = env.fwd_ok
            /\ Goto("main", "construct")
    /\ UNCHANGED <<mainFrame, env, running>>
    /\ UNCHANGED <<cleanups, cmdVars>>

\* initialize(interface): create_qdisc_root, then enable_ip_forwarding; run()
\* goes on only when both succeeded, and returns otherwise.
RunInitialize ==
    /\ pc["main"] = "initialize"
    /\ IF ~env.qdisc_ok
       THEN /\ Goto("main", "returned")
            /\ UNCHANGED <<qdisc, ipfwd>>
       ELSE /\ qdisc' = TRUE
            /\ IF ~env.fwd_ok
               THEN /\ Goto("main", "returned")
                    /\ UNCHANGED ipfwd
               ELSE /\ ipfwd' = TRUE
                    /\ Goto("main", "construct")
    /\ UNCHANGED <<mainFrame, env, running>>
    /\ UNCHANGED <<cleanups, cmdVars>>

\* MainMenu(...): the workers are created and their threads started;
\* menu.start() then runs the command loop.
MainMenuInit ==
    /\ pc["main"] = "construct"
    /\ running' = Workers
    /\ Goto("main", "prompt")
    /\ UNCHANGED <<mainFrame, env, qdisc, ipfwd>>
    /\ UNCHANGED <<cleanups, cmdVars>>

\* menu.start() has returned: cleanup(interface), and run() returns.
RunCleanup ==
    /\ pc["main"] = "done"
    /\ qdisc' = FALSE
    /\ ipfwd' = FALSE
    /\ Goto("main", "returned")
    /\ UNCHANGED <<mainFrame, env, running>>
    /\ UNCHANGED <<cleanups, cmdVars>>

RunStep == RunChecks \/ RunInitialize \/ MainMenuInit \/ RunCleanup

(***************************************************************************)
(* The main thread: CommandMenu.start and MainMenu's handlers              *)
(***************************************************************************)
ToPrompt ==
    /\ Goto("main", "prompt")
    /\ cmd' = "none"
    /\ sel' = {}
    /\ idx' = 0

\* The commands that begin with self._get_hosts_by_ids(args.id).
IdCommands == {"limit", "free", "watch_add", "watch_remove", "analyze"}

\* The program ends with an exception that nothing catches: it leaves the
\* handler, CommandMenu.start and run().
Crash ==
    /\ Goto("main", "crashed")
    /\ cmd' = "none"
    /\ sel' = {}
    /\ idx' = 0

CmdWithIds ==
    /\ pc["main"] = "prompt"
    /\ \E c \in IdCommands : cmd' = c
    /\ Goto("main", "ids_acquire")
    /\ UNCHANGED <<hosts, hosts_lock, workers, sel, idx, cbLocals>>
    /\ UNCHANGED <<runVars, anLocals>>
    /\ UNCHANGED <<cleanups, cmdVars>>

\* _get_hosts_by_ids: with self.hosts_lock:
IdsAcquire ==
    /\ pc["main"] = "ids_acquire"
    /\ hosts_lock = "free"
    /\ hosts_lock' = "main"
    /\ Goto("main", "ids_cs")
    /\ UNCHANGED <<hosts, workers, mainLocals, cbLocals>>
    /\ UNCHANGED <<runVars, anLocals>>
    /\ UNCHANGED <<cleanups, cmdVars>>

\* _get_hosts_by_ids under the lock, every return and the exception leaving
\* the with block; then the handler's own checks (None or empty result,
\* invalid rate for limit, invalid duration for analyze).
IdsResolve ==
    /\ pc["main"] = "ids_cs"
    /\ hosts_lock' = "free"
    /\ \E r \in {GetHostsByIds(ids, hosts) : ids \in IdsStrings},
          argOk \in {cmd \notin {"limit", "analyze"}, TRUE} :
            IF r.raised
            THEN Crash /\ UNCHANGED anLocals
            ELSE IF ~r.ok \/ r.hosts = {} \/ ~argOk
            THEN ToPrompt /\ UNCHANGED anLocals
            ELSE IF cmd = "analyze"
            THEN /\ sel' = r.hosts
                 /\ an_hosts' = r.hosts
                 /\ hosts_to_be_freed' = {}
                 /\ an_host' = NoHost
                 /\ Goto("main", "an_add")
                 /\ UNCHANGED <<cmd, idx>>
            ELSE /\ sel' = r.hosts
                 /\ Goto("main", "fanout")
                 /\ UNCHANGED <<cmd, idx, anLocals>>
    /\ UNCHANGED <<hosts, workers, cbLocals, runVars>>
    /\ UNCHANGED <<cleanups, cmdVars>>

\* Faulty variant: the rule is installed before the host is spoofed.
LimitCalls_RuleFirst(h) ==
    << Call("limiter.limit", NoHost, h, FALSE),
       Call("arp_spoofer.add", NoHost, h, FALSE),
       Call("bandwidth_monitor.add", NoHost, h, FALSE) >>

\* The worker calls of _limit_handler's loop body for one host, in order.
\* _block_handler's loop body makes the same calls, ARPSpoofer.add only when
\* the host is not spoofed yet (it is spoofed afterwards either way) and
\* Limiter.block in place of Limiter.limit.
LimitCalls(h) ==
    << Call("arp_spoofer.add", NoHost, h, FALSE),
       Call("limiter.limit", NoHost, h, FALSE),
       Call("bandwidth_monitor.add", NoHost, h, FALSE) >>

\* What a handler does to one resolved host.
HandlerEffect(c, w, h) ==
    CASE c = "limit" -> AfterCalls(w, LimitCalls(h), Len(LimitCalls(h)))
      [] c = "free" -> FreeHost(w, h)
      [] c = "watch_add" -> HostWatcherAdd(w, h)
      [] c = "watch_remove" -> HostWatcherRemove(w, h)

\* for host in hosts: ... over the resolved hosts, outside the lock.
Fanout ==
    /\ pc["main"] = "fanout"
    /\ \E h \in sel :
         /\ SetWorkers(HandlerEffect(cmd, W, h))
         /\ IF sel = {h}
            THEN ToPrompt
            ELSE /\ sel' = sel \ {h}
                 /\ UNCHANGED <<pc, cmd, idx>>
    /\ UNCHANGED <<hosts, hosts_lock, cbLocals>>
    /\ UNCHANGED <<runVars, anLocals>>
    /\ UNCHANGED <<cleanups, cmdVars>>

\* _add_handler up to the with block: an invalid address, an invalid
\* hardware address or one that cannot be resolved is reported and the
\* handler returns; otherwise host = Host(ip, mac, name).
CmdAdd ==
    /\ pc["main"] = "prompt"
    /\ cmd' = "add"
    /\ \/ /\ Goto("main", "add_error")
          /\ sel' = {}
       \/ /\ Len(hosts) < MaxHosts
          /\ \E h \in Host : sel' = {h}
          /\ Goto("main", "add_acquire")
    /\ UNCHANGED <<hosts, hosts_lock, workers, idx, cbLocals>>
    /\ UNCHANGED <<runVars, anLocals>>
    /\ UNCHANGED <<cleanups, cmdVars>>

AddAcquire ==
    /\ pc["main"] = "add_acquire"
    /\ hosts_lock = "free"
    /\ hosts_lock' = "main"
    /\ Goto("main", "add_cs")
    /\ UNCHANGED <<hosts, workers, mainLocals, cbLocals>>
    /\ UNCHANGED <<runVars, anLocals>>
    /\ UNCHANGED <<cleanups, cmdVars>>

\* Faulty variant: the duplicate's early return keeps the lock (acquire/release
\* written by hand, the return before the release).
AddBody_KeepsLock ==
    /\ pc["main"] = "add_cs"
    /\ \E h \in sel :
         IF h \in Range(hosts)
         THEN hosts' = hosts /\ hosts_lock' = hosts_lock
         ELSE hosts' = Append(hosts, h) /\ hosts_lock' = "free"
    /\ ToPrompt
    /\ UNCHANGED <<workers, cbLocals>>
    /\ UNCHANGED <<runVars, anLocals>>
    /\ UNCHANGED <<cleanups, cmdVars>>

\* Faulty variant: the host is appended without the membership test.
AddBody_AppendsDuplicate ==
    /\ pc["main"] = "add_cs"
    /\ hosts_lock' = "free"
    /\ \E h \in sel : hosts' = Append(hosts, h)
    /\ ToPrompt
    /\ UNCHANGED <<workers, cbLocals>>
    /\ UNCHANGED <<runVars, anLocals>>
    /\ UNCHANGED <<cleanups, cmdVars>>

\* if host in self.hosts: return (leaving the with block)
\* self.hosts.append(host)
AddBody ==
    /\ pc["main"] = "add_cs"
    /\ hosts_lock' = "free"
    /\ \E h \in sel :
         IF h \in Range(hosts)
         THEN hosts' = hosts
         ELSE hosts' = Append(hosts, h)
    /\ ToPrompt
    /\ UNCHANGED <<workers, cbLocals>>
    /\ UNCHANGED <<runVars, anLocals>>
    /\ UNCHANGED <<cleanups, cmdVars>>

\* IO.error(...) and return: the handler of a command with an invalid
\* argument ends and CommandMenu.start reads the next command.
ErrorReturn ==
    /\ pc["main"] \in {"add_error", "scan_error"}
    /\ ToPrompt
    /\ UNCHANGED <<hosts, hosts_lock, workers, cbLocals, runVars, anLocals>>
    /\ UNCHANGED <<cleanups, cmdVars>>

\* _parse_iprange(range): "ok" a list of addresses; "invalid" None, after
\* netaddr's AddrFormatError; "raises" another exception, which the except
\* clause does not catch: iter_iprange(*range.split('-')) called with more
\* than three arguments raises TypeError.
ParseIprange == {"ok", "invalid", "raises"}

\* _scan_handler up to the with block: the range is omitted or parsed.
CmdScan ==
    /\ pc["main"] = "prompt"
    /\ \E r \in ParseIprange :
         CASE r = "ok" -> /\ Goto("main", "scan_acquire")
                          /\ cmd' = "scan"
                          /\ UNCHANGED <<sel, idx>>
           [] r = "invalid" -> /\ Goto("main", "scan_error")
                               /\ cmd' = "scan"
                               /\ UNCHANGED <<sel, idx>>
           [] r = "raises" -> Crash
    /\ UNCHANGED <<hosts, hosts_lock, workers, cbLocals>>
    /\ UNCHANGED <<runVars, anLocals>>
    /\ UNCHANGED <<cleanups, cmdVars>>

\* with self.hosts_lock:
ScanAcquire ==
    /\ pc["main"] = "scan_acquire"
    /\ hosts_lock = "free"
    /\ hosts_lock' = "main"
    /\ idx' = 1
    /\ Goto("main", "scan_free")
    /\ UNCHANGED <<hosts, workers, cmd, sel, cbLocals>>
    /\ UNCHANGED <<runVars, anLocals>>
    /\ UNCHANGED <<cleanups, cmdVars>>

\* for host in self.hosts: self._free_host(host)    (inside the with block)
ScanFree ==
    /\ pc["main"] = "scan_free"
    /\ idx <= Len(hosts)
    /\ SetWorkers(FreeHost(W, hosts[idx]))
    /\ idx' = idx + 1
    /\ UNCHANGED <<hosts, hosts_lock, pc, cmd, sel, cbLocals>>
    /\ UNCHANGED <<runVars, anLocals>>
    /\ UNCHANGED <<cleanups, cmdVars>>

\* The with block ends; self.host_scanner.scan(iprange) then runs unlocked.
ScanRelease ==
    /\ pc["main"] = "scan_free"
    /\ idx > Len(hosts)
    /\ hosts_lock' = "free"
    /\ idx' = 0
    /\ Goto("main", "scan_acquire2")
    /\ UNCHANGED <<hosts, workers, cmd, sel, cbLocals>>
    /\ UNCHANGED <<runVars, anLocals>>
    /\ UNCHANGED <<cleanups, cmdVars>>

\* Faulty variant: the scan result is assigned without acquiring the lock.
ScanAcquire2_NoLock ==
    /\ pc["main"] = "scan_acquire2"
    /\ Goto("main", "scan_assign")
    /\ UNCHANGED <<hosts, hosts_lock, workers, mainLocals, cbLocals>>
    /\ UNCHANGED <<runVars, anLocals>>
    /\ UNCHANGED <<cleanups, cmdVars>>

\* self.hosts_lock.acquire()
ScanAcquire2 ==
    /\ pc["main"] = "scan_acquire2"
    /\ hosts_lock = "free"
    /\ hosts_lock' = "main"
    /\ Goto("main", "scan_assign")
    /\ UNCHANGED <<hosts, workers, mainLocals, cbLocals>>
    /\ UNCHANGED <<runVars, anLocals>>
    /\ UNCHANGED <<cleanups, cmdVars>>

\* What HostScanner.scan returns: the responding hosts, each once.
ScanResults == {r \in SeqUpTo(Host, MaxHosts) : NoDup(r)}

\* self.hosts = hosts; self.hosts_lock.release()
ScanAssign ==
    /\ pc["main"] = "scan_assign"
    /\ \E r \in ScanResults : hosts' = r
    /\ hosts_lock' = "free"
    /\ ToPrompt
    /\ UNCHANGED <<workers, cbLocals>>
    /\ UNCHANGED <<runVars, anLocals>>
    /\ UNCHANGED <<cleanups, cmdVars>>

\* _hosts_handler
CmdHosts ==
    /\ pc["main"] = "prompt"
    /\ cmd' = "hosts"
    /\ Goto("main", "hosts_acquire")
    /\ UNCHANGED <<hosts, hosts_lock, workers, sel, idx, cbLocals>>
    /\ UNCHANGED <<runVars, anLocals>>
    /\ UNCHANGED <<cleanups, cmdVars>>

HostsAcquire ==
    /\ pc["main"] = "hosts_acquire"
    /\ hosts_lock = "free"
    /\ hosts_lock' = "main"
    /\ Goto("main", "hosts_cs")
    /\ UNCHANGED <<hosts, workers, mainLocals, cbLocals>>
    /\ UNCHANGED <<runVars, anLocals>>
    /\ UNCHANGED <<cleanups, cmdVars>>

\* _get_host_id(host, lock): with lock set it acquires hosts_lock, which is
\* not reentrant; this is whether the call can proceed for thread t.
GetHostIdProceeds(lock) == lock => hosts_lock = "free"

\* for host in self.hosts: ... self._get_host_id(host, lock=False) ...
\* inside the with block, then the block ends.
HostsBody ==
    /\ pc["main"] = "hosts_cs"
    /\ hosts # <<>> => GetHostIdProceeds(FALSE)
    /\ hosts_lock' = "free"
    /\ ToPrompt
    /\ UNCHANGED <<hosts, workers, cbLocals>>
    /\ UNCHANGED <<runVars, anLocals>>
    /\ UNCHANGED <<cleanups, cmdVars>>

\* _quit_handler -> interrupt_handler(False), or KeyboardInterrupt at the
\* prompt -> interrupt_handler(): self.arp_spoofer.stop(),
\* self.bandwidth_monitor.stop(), and the cleanup pass begins.
CmdQuit ==
    /\ pc["main"] = "prompt"
    /\ \E c \in {"quit", "interrupt"} : cmd' = c
    /\ running' = running \ {"arp_spoofer", "bandwidth_monitor"}
    /\ idx' = 1
    /\ Goto("main", "int_loop")
    /\ UNCHANGED <<hosts, hosts_lock, workers, sel, cbLocals>>
    /\ UNCHANGED <<env, qdisc, ipfwd, anLocals>>
    /\ cleanups' = cleanups + 1
    /\ UNCHANGED cmdVars

\* for host in self.hosts: self._free_host(host)    (no lock taken)
IntFree ==
    /\ pc["main"] = "int_loop"
    /\ idx <= Len(hosts)
    /\ SetWorkers(FreeHost(W, hosts[idx]))
    /\ idx' = idx + 1
    /\ UNCHANGED <<hosts, hosts_lock, pc, cmd, sel, cbLocals>>
    /\ UNCHANGED <<runVars, anLocals>>
    /\ UNCHANGED <<cleanups, cmdVars>>

\* Faulty variant: neither self.stop() nor break; the loop reads on.
IntDone_KeepsLooping ==
    /\ pc["main"] = "int_loop"
    /\ idx > Len(hosts)
    /\ ToPrompt
    /\ UNCHANGED <<hosts, hosts_lock, workers, cbLocals>>
    /\ UNCHANGED <<runVars, anLocals>>
    /\ UNCHANGED <<cleanups, cmdVars>>

\* The loop ends; self.stop() or break ends CommandMenu.start.
IntDone ==
    /\ pc["main"] = "int_loop"
    /\ idx > Len(hosts)
    /\ Goto("main", "done")
    /\ cmd' = "none"
    /\ sel' = {}
    /\ idx' = 0
    /\ UNCHANGED <<hosts, hosts_lock, workers, cbLocals>>
    /\ UNCHANGED <<runVars, anLocals>>
    /\ UNCHANGED <<cleanups, cmdVars>>

\* _monitor_handler with a valid or omitted interval.  idx is the phase:
\* 0 the emptiness check, 1 display's first read, 2 a refresh.
CmdMonitor ==
    /\ pc["main"] = "prompt"
    /\ cmd' = "monitor"
    /\ Goto("main", "mon_acquire")
    /\ UNCHANGED <<hosts, hosts_lock, workers, sel, idx, cbLocals>>
    /\ UNCHANGED <<runVars, anLocals>>
    /\ UNCHANGED <<cleanups, cmdVars>>

\* get_bandwidth_results: with self.hosts_lock:
MonAcquire ==
    /\ pc["main"] = "mon_acquire"
    /\ hosts_lock = "free"
    /\ hosts_lock' = "main"
    /\ Goto("main", "mon_get")
    /\ UNCHANGED <<hosts, workers, mainLocals, cbLocals>>
    /\ UNCHANGED <<runVars, anLocals>>
    /\ UNCHANGED <<cleanups, cmdVars>>

\* [(y, self.bandwidth_monitor.get(y)) for y in self.hosts] without the
\* absent results, computed inside the with block.
BandwidthResults == {h \in Range(hosts) : h \in monitored}

\* get_bandwidth_results returns.  The check before the display reports an
\* empty result; display's first read feeds max([...]), which raises on an
\* empty list and ends the program; a refresh just redraws.
MonGet ==
    /\ pc["main"] = "mon_get"
    /\ hosts_lock' = "free"
    /\ IF idx = 0
       THEN IF BandwidthResults = {}
            THEN ToPrompt
            ELSE /\ idx' = 1
                 /\ Goto("main", "mon_acquire")
                 /\ UNCHANGED <<cmd, sel>>
       ELSE IF idx = 1 /\ BandwidthResults = {}
            THEN Crash
            ELSE /\ idx' = 2
                 /\ sel' = BandwidthResults
                 /\ Goto("main", "mon_rows")
                 /\ UNCHANGED cmd
    /\ UNCHANGED <<hosts, workers, cbLocals>>
    /\ UNCHANGED <<runVars, anLocals>>
    /\ UNCHANGED <<cleanups, cmdVars>>

\* display: str(self._get_host_id(host)) for a row: hosts_lock.acquire()
MonRowAcquire ==
    /\ pc["main"] = "mon_rows"
    /\ sel # {}
    /\ GetHostIdProceeds(TRUE)
    /\ hosts_lock' = "main"
    /\ Goto("main", "mon_id_cs")
    /\ UNCHANGED <<hosts, workers, mainLocals, cbLocals>>
    /\ UNCHANGED <<runVars, anLocals>>
    /\ UNCHANGED <<cleanups, cmdVars>>

\* _get_host_id: the enumeration of self.hosts, then hosts_lock.release()
MonRowId ==
    /\ pc["main"] = "mon_id_cs"
    /\ hosts_lock' = "free"
    /\ \E h \in sel : sel' = sel \ {h}
    /\ Goto("main", "mon_rows")
    /\ UNCHANGED <<hosts, workers, cmd, idx, cbLocals>>
    /\ UNCHANGED <<runVars, anLocals>>
    /\ UNCHANGED <<cleanups, cmdVars>>

\* All rows drawn: time.sleep(interval), then either the next
\* get_bandwidth_results or the KeyboardInterrupt that leaves the display.
MonSleep ==
    /\ pc["main"] = "mon_rows"
    /\ sel = {}
    /\ \/ /\ Goto("main", "mon_acquire")
          /\ UNCHANGED mainLocals
       \/ ToPrompt
    /\ UNCHANGED <<hosts, hosts_lock, workers, cbLocals>>
    /\ UNCHANGED <<runVars, anLocals>>
    /\ UNCHANGED <<cleanups, cmdVars>>

(***************************************************************************)
(* _analyze_handler, after _get_hosts_by_ids and the duration check        *)
(***************************************************************************)
AnReset ==
    /\ an_hosts' = {}
    /\ hosts_to_be_freed' = {}
    /\ an_host' = NoHost

\* First loop, one host: hosts_to_be_freed.add(host) unless host.spoofed,
\* self.arp_spoofer.add(host), self.bandwidth_monitor.add(host).
AnAdd ==
    /\ pc["main"] = "an_add"
    /\ \E h \in sel :
         /\ an_host' = h
         /\ hosts_to_be_freed' =
               IF h \in spoofed THEN hosts_to_be_freed ELSE hosts_to_be_freed \cup {h}
         /\ SetWorkers(BandwidthMonitorAdd(ARPSpooferAdd(W, h), h))
    /\ Goto("main", "an_get")
    /\ UNCHANGED <<hosts, hosts_lock, mainLocals, cbLocals, runVars, an_hosts>>
    /\ UNCHANGED <<cleanups, cmdVars>>

\* host_result = self.bandwidth_monitor.get(host), then
\* host_result.upload_total_size: AttributeError when the result is None.
AnGet ==
    /\ pc["main"] = "an_get"
    /\ IF an_host \in monitored
       THEN /\ sel' = sel \ {an_host}
            /\ an_host' = NoHost
            /\ Goto("main", IF sel = {an_host} THEN "an_sleep" ELSE "an_add")
            /\ UNCHANGED <<cmd, idx, an_hosts, hosts_to_be_freed>>
       ELSE Crash /\ AnReset
    /\ UNCHANGED <<hosts, hosts_lock, workers, cbLocals, runVars>>
    /\ UNCHANGED <<cleanups, cmdVars>>

\* time.sleep(duration); error_occurred = False (idx is error_occurred).
AnSleep ==
    /\ pc["main"] = "an_sleep"
    /\ sel' = an_hosts
    /\ idx' = 0
    /\ Goto("main", "an_read")
    /\ UNCHANGED <<hosts, hosts_lock, workers, cmd, cbLocals, runVars, anLocals>>
    /\ UNCHANGED <<cleanups, cmdVars>>

\* Second loop, one host: self.bandwidth_monitor.get(host); a None result
\* is reported and sets error_occurred.  After the last host the loop over
\* hosts_to_be_freed begins.
AnRead ==
    /\ pc["main"] = "an_read"
    /\ \E h \in sel :
         /\ idx' = IF h \in monitored THEN idx ELSE 1
         /\ IF sel = {h}
            THEN /\ sel' = hosts_to_be_freed
                 /\ hosts_to_be_freed' = {}
                 /\ Goto("main", "an_free")
            ELSE /\ sel' = sel \ {h}
                 /\ UNCHANGED <<pc, hosts_to_be_freed>>
    /\ UNCHANGED <<hosts, hosts_lock, workers, cmd, cbLocals, runVars, an_hosts, an_host>>
    /\ UNCHANGED <<cleanups, cmdVars>>

\* for host in hosts_to_be_freed: self._free_host(host)   (sel holds what
\* is left of hosts_to_be_freed, later of hosts: a local is cleared once
\* the handler no longer reads it)
AnFree ==
    /\ pc["main"] = "an_free"
    /\ \E h \in sel :
         /\ SetWorkers(FreeHost(W, h))
         /\ sel' = sel \ {h}
    /\ UNCHANGED <<hosts, hosts_lock, pc, cmd, idx, cbLocals, runVars, anLocals>>
    /\ UNCHANGED <<cleanups, cmdVars>>

\* if error_occurred: return; otherwise the loop that draws the charts.
AnFreed ==
    /\ pc["main"] = "an_free"
    /\ sel = {}
    /\ IF idx = 1
       THEN ToPrompt /\ AnReset
       ELSE /\ sel' = an_hosts
            /\ AnReset
            /\ Goto("main", "an_chart")
            /\ UNCHANGED <<cmd, idx>>
    /\ UNCHANGED <<hosts, hosts_lock, workers, cbLocals, runVars>>
    /\ UNCHANGED <<cleanups, cmdVars>>

\* self._get_host_id(host) for a chart row: hosts_lock.acquire()
AnChartAcquire ==
    /\ pc["main"] = "an_chart"
    /\ sel # {}
    /\ GetHostIdProceeds(TRUE)
    /\ hosts_lock' = "main"
    /\ Goto("main", "an_id_cs")
    /\ UNCHANGED <<hosts, workers, mainLocals, cbLocals, runVars, anLocals>>
    /\ UNCHANGED <<cleanups, cmdVars>>

\* _get_host_id: the enumeration of self.hosts, then hosts_lock.release()
AnChartId ==
    /\ pc["main"] = "an_id_cs"
    /\ hosts_lock' = "free"
    /\ \E h \in sel : sel' = sel \ {h}
    /\ Goto("main", "an_chart")
    /\ UNCHANGED <<hosts, workers, cmd, idx, cbLocals, runVars, anLocals>>
    /\ UNCHANGED <<cleanups, cmdVars>>

\* The charts are printed and the handler returns.
AnDone ==
    /\ pc["main"] = "an_chart"
    /\ sel = {}
    /\ ToPrompt
    /\ UNCHANGED <<hosts, hosts_lock, workers, cbLocals, runVars, anLocals>>
    /\ UNCHANGED <<cleanups, cmdVars>>

AnalyzeStep ==
    \/ AnAdd \/ AnGet \/ AnSleep \/ AnRead \/ AnFree \/ AnFreed
    \/ AnChartAcquire \/ AnChartId \/ AnDone

MainStep ==
    \/ CmdWithIds \/ IdsAcquire \/ IdsResolve \/ Fanout
    \/ CmdAdd \/ AddAcquire \/ AddBody \/ ErrorReturn
    \/ CmdScan \/ ScanAcquire \/ ScanFree \/ ScanRelease \/ ScanAcquire2 \/ ScanAssign
    \/ CmdHosts \/ HostsAcquire \/ HostsBody
    \/ CmdMonitor \/ MonAcquire \/ MonGet \/ MonRowAcquire \/ MonRowId \/ MonSleep
    \/ CmdQuit \/ IntFree \/ IntDone
    \/ AnalyzeStep

Next == RunStep \/ MainStep \/ WatcherStep

Spec == Init /\ [][Next]_vars

(***************************************************************************)
(* Command lines: CommandParser.parse, the handlers it invokes, and what   *)
(* _block_handler and _watch_set_handler compute from the parsed arguments *)
(***************************************************************************)
MaxTokens == 4

FlagCommand(type, identifier, name) ==
    [type |-> type, identifier |-> identifier, name |-> name]
Subparser(identifier, subparser, handler) ==
    [identifier |-> identifier, subparser |-> subparser, handler |-> handler]
CommandParser(flag_commands, parameter_commands, subparsers) ==
    [flag_commands |-> flag_commands,
     parameter_commands |-> parameter_commands,
     subparsers |-> subparsers]

add_flag(identifier, name) == FlagCommand("FLAG_COMMAND", identifier, name)
add_parameterized_flag(identifier, name) ==
    FlagCommand("PARAMETERIZED_FLAG_COMMAND", identifier, name)

\* The parsers MainMenu.__init__ builds.  A Subparser's subparser is the
\* name under which the parser it leads to is listed here.
Parsers ==
    [ parser |-> CommandParser(<<>>, <<>>,
        << Subparser("c", "c", "_clear_handler"),
           Subparser("h", "h", "_hosts_handler"),
           Subparser("s", "s", "_scan_handler"),
           Subparser("l", "l", "_limit_handler"),
           Subparser("b", "b", "_block_handler"),
           Subparser("f", "f", "_free_handler"),
           Subparser("ad", "ad", "_add_handler"),
           Subparser("m", "m", "_monitor_handler"),
           Subparser("an", "an", "_analyze_handler"),
           Subparser("w", "w", "_watch_handler"),
           Subparser("help", "help", "_help_handler"),
           Subparser("?", "help2", "_help_handler"),
           Subparser("q", "q", "_quit_handler"),
           Subparser("e", "e", "_quit_handler") >>),
      c |-> CommandParser(<<>>, <<>>, <<>>),
      h |-> CommandParser(<< add_flag("--force", "force") >>, <<>>, <<>>),
      s |-> CommandParser(<< add_parameterized_flag("--range", "iprange") >>,
                          <<>>, <<>>),
      l |-> CommandParser(<< add_flag("--upload", "upload"),
                             add_flag("--download", "download") >>,
                          << "id", "rate" >>, <<>>),
      b |-> CommandParser(<< add_flag("--upload", "upload"),
                             add_flag("--download", "download") >>,
                          << "id" >>, <<>>),
      f |-> CommandParser(<<>>, << "id" >>, <<>>),
      ad |-> CommandParser(<< add_parameterized_flag("--mac", "mac") >>,
                           << "ip" >>, <<>>),
      m |-> CommandParser(<< add_parameterized_flag("--interval", "interval") >>,
                          <<>>, <<>>),
      an |-> CommandParser(<< add_parameterized_flag("--duration", "duration") >>,
                           << "id" >>, <<>>),
      w |-> CommandParser(<<>>, <<>>,
        << Subparser("ad", "w_ad", "_watch_add_handler"),
           Subparser("r", "w_r", "_watch_remove_handler"),
           Subparser("set", "w_set", "_watch_set_handler") >>),
      w_ad |-> CommandParser(<<>>, << "id" >>, <<>>),
      w_r |-> CommandParser(<<>>, << "id" >>, <<>>),
      w_set |-> CommandParser(<<>>, << "attribute", "value" >>, <<>>),
      help |-> CommandParser(<<>>, <<>>, <<>>),
      help2 |-> CommandParser(<<>>, <<>>, <<>>),
      q |-> CommandParser(<<>>, <<>>, <<>>),
      e |-> CommandParser(<<>>, <<>>, <<>>) ]

\* names = [x.name for x in (self._flag_commands + self._parameter_commands)]
Names(p) ==
    {fc.name : fc \in Range(Parsers[p].flag_commands)}
        \cup Range(Parsers[p].parameter_commands)

\* The first index of a loop over a list at which the loop's test succeeds.
First(S) == CHOOSE k \in S : \A j \in S : k <= j

\* Faulty variant: a parameter without a value is left None in the result.
ParseEnd_AllowsMissing(p, result_dict) ==
    [ok |-> TRUE,
     fields |-> [n \in DOMAIN result_dict |->
                   IF /\ \E fc \in Range(Parsers[p].flag_commands) :
                             fc.name = n /\ fc.type = "FLAG_COMMAND"
                      /\ result_dict[n] = None
                   THEN False
                   ELSE result_dict[n]],
     handled |-> <<>>]

\* Faulty variant: a flag that did not occur is left None, not False.
ParseEnd_KeepsNone(p, result_dict) ==
    IF \E k \in 1..Len(Parsers[p].parameter_commands) :
           result_dict[Parsers[p].parameter_commands[k]] = None
    THEN NoResult
    ELSE [ok |-> TRUE, fields |-> result_dict, handled |-> <<>>]

\* parse after its loop: a parameter still None is an error; the flags
\* still None become False; the result has one field per name.
ParseEnd(p, result_dict) ==
    IF \E k \in 1..Len(Parsers[p].parameter_commands) :
           result_dict[Parsers[p].parameter_commands[k]] = None
    THEN NoResult
    ELSE [ok |-> TRUE,
          fields |-> [n \in DOMAIN result_dict |->
                        IF /\ \E fc \in Range(Parsers[p].flag_commands) :
                                  fc.name = n /\ fc.type = "FLAG_COMMAND"
                           /\ result_dict[n] = None
                        THEN False
                        ELSE result_dict[n]],
          handled |-> <<>>]

\* Faulty variant: the enclosing handler is recorded before the inner ones.
InvokeHandler_OuterFirst(sp, result) ==
    IF result.ok /\ sp.handler # "None"
    THEN [result EXCEPT
            !.handled = <<[handler |-> sp.handler, args |-> result.fields]>> \o @]
    ELSE result

\* if result is not None and sp.handler is not None: sp.handler(result)
\* and then return result.
InvokeHandler(sp, result) ==
    IF result.ok /\ sp.handler # "None"
    THEN [result EXCEPT
            !.handled = Append(@, [handler |-> sp.handler, args |-> result.fields])]
    ELSE result

\* parse(command) of the parser listed as p.  ParseFrom is the for loop from
\* its iteration i on (i is enumerate's index plus one).
RECURSIVE Parse(_, _), ParseFrom(_, _, _, _, _)
ParseFrom(p, tokens, i, skip_next, result_dict) ==
    IF i > Len(tokens)
    THEN ParseEnd(p, result_dict)
    ELSE IF skip_next
    THEN ParseFrom(p, tokens, i + 1, FALSE, result_dict)
    ELSE
      LET arg == tokens[i]
          P == Parsers[p]
          sps == {k \in 1..Len(P.subparsers) : P.subparsers[k].identifier = arg}
          fcs == {k \in 1..Len(P.flag_commands) : P.flag_commands[k].identifier = arg}
          unset == {k \in 1..Len(P.parameter_commands) :
                      result_dict[P.parameter_commands[k]] = None}
      IN  IF i = 1 /\ sps # {}
          THEN LET sp == P.subparsers[First(sps)]
               IN  InvokeHandler(sp, Parse(sp.subparser,
                                           SubSeq(tokens, i + 1, Len(tokens))))
          ELSE IF fcs # {}
          THEN LET fc == P.flag_commands[First(fcs)]
               IN  IF fc.type = "FLAG_COMMAND"
                   THEN ParseFrom(p, tokens, i + 1, FALSE,
                                  [result_dict EXCEPT ![fc.name] = True])
                   ELSE IF (Len(tokens) - 1) < i
                   THEN NoResult
                   ELSE ParseFrom(p, tokens, i + 1, TRUE,
                                  [result_dict EXCEPT ![fc.name] = Str(tokens[i + 1])])
          ELSE IF unset # {}
          THEN ParseFrom(p, tokens, i + 1, FALSE,
                         [result_dict EXCEPT
                            ![P.parameter_commands[First(unset)]] = Str(arg)])
          ELSE NoResult
Parse(p, tokens) == ParseFrom(p, tokens, 1, FALSE, [n \in Names(p) |-> None])

\* Faulty variant: no direction is substituted when neither flag is set.
ParseDirectionArgs_NoDefault(args) ==
    LET d1 == IF args["upload"] = True THEN NONE \cup OUTGOING ELSE NONE
    IN  IF args["download"] = True THEN d1 \cup INCOMING ELSE d1

ParseDirectionArgs(args) ==
    LET d1 == IF args["upload"] = True THEN NONE \cup OUTGOING ELSE NONE
        d2 == IF args["download"] = True THEN d1 \cup INCOMING ELSE d1
    IN  IF d2 = NONE THEN BOTH ELSE d2

\* str.lower() on the tokens of CmdTokens: one of them has an upper-case
\* letter.
Lower(t) == IF t = "Interval" THEN "interval" ELSE t

\* x in ('interval'): the parentheses make no tuple, so this is the
\* substring test x in 'interval'.  These are the substrings of 'interval'.
SubstringsOfInterval ==
    {"a", "e", "i", "l", "n", "r", "t", "v", "al", "er", "in", "nt", "rv",
     "te", "va", "erv", "int", "nte", "rva", "ter", "val", "erva", "inte",
     "nter", "rval", "terv", "erval", "inter", "nterv", "terva", "interv",
     "nterva", "terval", "interva", "nterval", "interval"}

\* _watch_set_handler.  r is what _parse_iprange does with the value.
WatchSetHandler(args, cfg, r) ==
    LET attribute == Lower(args["attribute"].val)
        value == args["value"].val
    IN  IF attribute \in {"range", "iprange", "ip_range"}
        THEN CASE r = "ok" -> [cfg |-> [cfg EXCEPT !.iprange = value], raised |-> FALSE]
               [] r = "invalid" -> [cfg |-> cfg, raised |-> FALSE]
               [] r = "raises" -> [cfg |-> cfg, raised |-> TRUE]
        ELSE IF attribute \in SubstringsOfInterval
        THEN IF IsDigit(value)
             THEN IF IntRaises(value)
                  THEN [cfg |-> cfg, raised |-> TRUE]
                  ELSE [cfg |-> [cfg EXCEPT !.interval = IntOf(value)], raised |-> FALSE]
             ELSE [cfg |-> cfg, raised |-> FALSE]
        ELSE [cfg |-> cfg, raised |-> FALSE]

\* One handler invoked by parse: _block_handler computes the direction
\* before it looks at the resolved hosts, _watch_set_handler changes the
\* watcher's settings; the other handlers touch neither.
RunHandler(st, call, r) ==
    CASE call.handler = "_block_handler" ->
            [st EXCEPT !.direction = ParseDirectionArgs(call.args)]
      [] call.handler = "_watch_set_handler" ->
            LET o == WatchSetHandler(call.args, st.watch_cfg, r)
            IN  [st EXCEPT !.watch_cfg = o.cfg, !.raised = o.raised]
      [] OTHER -> st

\* The first k handlers parse invokes, in order; an exception ends parse.
RECURSIVE RunHandlers(_, _, _, _)
RunHandlers(st, handled, k, r) ==
    IF k = 0
    THEN st
    ELSE LET before == RunHandlers(st, handled, k - 1, r)
         IN  IF before.raised THEN before ELSE RunHandler(before, handled[k], r)

\* The words an operator types in this model.
CmdTokens ==
    {"b", "w", "ad", "set", "--upload", "--download", "--mac", "0",
     "interval", "Interval", "int", "range"}

\* The menu is at its prompt and a command line has been read.
InitCommand ==
    /\ hosts = <<>>
    /\ hosts_lock = "free"
    /\ spoofed = {}
    /\ limited = {}
    /\ monitored = {}
    /\ watched = {}
    /\ pc = [main |-> "prompt", watcher |-> "idle"]
    /\ cmd = "none"
    /\ sel = {}
    /\ idx = 0
    /\ cb_old = NoHost
    /\ cb_new = NoHost
    /\ cb_log = <<>>
    /\ migrated = {}
    /\ was_spoofed = FALSE
    /\ env = [linux |-> TRUE, privileged |-> TRUE, args_ok |-> TRUE,
              qdisc_ok |-> TRUE, fwd_ok |-> TRUE]
    /\ running = Workers
    /\ qdisc = TRUE
    /\ ipfwd = TRUE
    /\ an_hosts = {}
    /\ hosts_to_be_freed = {}
    /\ an_host = NoHost
    /\ cleanups = 0
    /\ command \in SeqUpTo(CmdTokens, MaxTokens)
    /\ stage = "input"
    /\ parsed = NoResult
    /\ direction = NoDirection
    /\ watch_cfg = [interval |-> 1, iprange |-> "None"]

\* parsed_args = self.parser.parse(command.split()), the handlers running
\* inside parse; argument_handler does nothing.
ParseCommand ==
    /\ stage = "input"
    /\ \E r \in ParseIprange :
         LET result == Parse("parser", command)
             st == RunHandlers([direction |-> direction, watch_cfg |-> watch_cfg,
                                raised |-> FALSE],
                               result.handled, Len(result.handled), r)
         IN  /\ parsed' = result
             /\ direction' = st.direction
             /\ watch_cfg' = st.watch_cfg
             /\ stage' = IF st.raised THEN "crashed" ELSE "handled"
    /\ UNCHANGED <<hosts, hosts_lock, workers, mainLocals, cbLocals, anLocals>>
    /\ UNCHANGED <<pc, runVars, cleanups, command>>

NextCommand == ParseCommand

SpecCommand == InitCommand /\ [][NextCommand]_vars

(***************************************************************************)
(* Properties                                                              *)
(***************************************************************************)
Threads == {"main", "watcher"}

\* The callback, holding the lock, takes its step out of the critical section.
CbLeavesLock == pc["watcher"] = "cb_cs" /\ pc'["watcher"] # "cb_cs"
\* ... and that step performs the migration (the swap; the calls follow).
CbMigrates == CbLeavesLock /\ pc'["watcher"] = "cb_calls"

\* C1 (as amended): when the callback holds the registry lock and old is not
\* registered, it returns at once: the registry and every worker's state are
\* unchanged and no worker call follows; and a callback performs the
\* migration only if old is registered at that moment.
C1_AbortIsNoOp ==
    [][CbLeavesLock =>
         IF cb_old \in Range(hosts)
         THEN pc'["watcher"] = "cb_calls"
         ELSE /\ hosts' = hosts
              /\ workers' = workers
              /\ migrated' = migrated
              /\ cb_log' = <<>>
              /\ pc'["watcher"] = "idle"]_vars

\* C1 witness: the callback holds the lock and old is no longer registered.
C1_Witness ==
    /\ pc["watcher"] = "cb_cs"
    /\ hosts_lock = "watcher"
    /\ cb_old \notin Range(hosts)

\* C1 as stated: of the reconnect events delivered for one old host, at most
\* one performs the migration.
C1_AtMostOneMigrationPerOld == [][CbMigrates => cb_old \notin migrated]_vars

\* C2 as stated: the swap puts new at the position old occupied, leaves no
\* entry equal to old, and leaves every other entry at its index.
C2_SwapReplacesOld ==
    [][CbMigrates =>
         /\ Len(hosts') = Len(hosts)
         /\ hosts'[IndexOf(hosts, cb_old)] = cb_new
         /\ \A j \in 1..Len(hosts) : j # IndexOf(hosts, cb_old) => hosts'[j] = hosts[j]
         /\ cb_old \notin Range(hosts')]_vars

\* The calls the callback must wait for ARPSpoofer.remove(old) with.
AfterRemoveOps ==
    {"arp_spoofer.add", "host_watcher.add", "limiter.replace", "bandwidth_monitor.replace"}

\* C3: in the order of what a callback does, the registry swap precedes every
\* worker call, and ARPSpoofer.remove(old, restore=false) precedes
\* ARPSpoofer.add(new), HostWatcher.add(new) and both replace calls.
C3_SwapThenRemoveFirst ==
    \A i \in 1..Len(cb_log) :
       /\ cb_log[i].op # "hosts.swap" =>
            \E j \in 1..(i - 1) : cb_log[j] = Call("hosts.swap", cb_old, cb_new, FALSE)
       /\ cb_log[i].op \in AfterRemoveOps =>
            \E j \in 1..(i - 1) : cb_log[j] = Call("arp_spoofer.remove", cb_old, NoHost, FALSE)

\* C3 witness: a callback that migrated and made all its calls.
C3_Witness ==
    /\ pc["watcher"] = "cb_return"
    /\ Len(cb_log) = 7
    /\ cb_log[1].op = "hosts.swap"

\* C4: a callback that does not abort makes exactly six worker calls, each
\* once: ARPSpoofer.remove(old, restore=false), ARPSpoofer.add(new),
\* HostWatcher.remove(old), HostWatcher.add(new), Limiter.replace(old, new),
\* BandwidthMonitor.replace(old, new); it never removes with restoration.
C4_ExactlyTheSixCalls ==
    LET made == WorkerCallsOf(cb_log)
    IN /\ \A i, j \in 1..Len(made) : i # j => made[i] # made[j]
       /\ \A i \in 1..Len(made) : ~made[i].restore
       /\ pc["watcher"] = "cb_return" =>
            /\ Len(made) = 6
            /\ Range(made) =
                 { Call("arp_spoofer.remove", cb_old, NoHost, FALSE),
                   Call("arp_spoofer.add", NoHost, cb_new, FALSE),
                   Call("host_watcher.remove", cb_old, NoHost, FALSE),
                   Call("host_watcher.add", NoHost, cb_new, FALSE),
                   Call("limiter.replace", cb_old, cb_new, FALSE),
                   Call("bandwidth_monitor.replace", cb_old, cb_new, FALSE) }

\* C4 witness: the callback is about to return and new is spoofed and watched.
C4_Witness ==
    /\ pc["watcher"] = "cb_return"
    /\ cb_new \in spoofed
    /\ cb_new \in watched
    /\ cb_old \notin watched

\* C5 as stated: the registry never holds two equal hosts.
C5_NoDuplicateHosts == NoDup(hosts)

\* C6 as stated: while no reconnect replace is in progress, every host a
\* worker tracks is registered.
C6_WorkersTrackRegisteredHosts ==
    pc["watcher"] = "idle" =>
        (spoofed \cup limited \cup monitored \cup watched) \subseteq Range(hosts)

\* Thread t is about to call an operation of ARPSpoofer, Limiter or
\* BandwidthMonitor.
AtWorkerCall(t) ==
    IF t = "watcher"
    THEN pc[t] = "cb_calls"
    ELSE \/ pc[t] \in {"scan_free", "int_loop"} /\ idx <= Len(hosts) /\ hosts[idx] \in spoofed
         \/ pc[t] = "mon_get" /\ hosts # <<>>
         \/ pc[t] = "fanout" /\ cmd \in {"limit", "free"}
         \/ pc[t] \in {"an_add", "an_get", "an_read"}
         \/ pc[t] = "an_free" /\ sel # {}

\* C7 as stated: no thread holds hosts_lock when it calls such an operation.
C7_NoWorkerCallUnderLock ==
    \A t \in Threads : AtWorkerCall(t) => hosts_lock # t

\* C8: whenever the registry changes, the thread taking the step holds
\* hosts_lock; hence no two mutations overlap.
C8_MutationsUnderLock ==
    [][hosts' # hosts =>
         \E t \in Threads :
            /\ hosts_lock = t
            /\ pc'[t] # pc[t]
            /\ \A u \in Threads \ {t} : pc'[u] = pc[u]]_vars

\* C8 witness: the scan is about to replace the registry, holding the lock,
\* while the callback waits for it.
C8_Witness ==
    /\ pc["main"] = "scan_assign"
    /\ hosts_lock = "main"
    /\ pc["watcher"] = "cb_lock"

\* The main thread is in the middle of a "for ... in self.hosts".
Traversing ==
    \/ pc["main"] \in {"hosts_cs", "mon_get", "mon_id_cs", "an_id_cs", "ids_cs"}
    \/ pc["main"] \in {"scan_free", "int_loop"} /\ idx <= Len(hosts)

\* C9 as stated: no element of the registry is substituted while a traversal
\* of it is under way.
C9_NoSubstitutionDuringTraversal == [][Traversing => hosts' = hosts]_vars

\* Where each thread stands between acquiring and releasing hosts_lock, and
\* where it waits to acquire it.
CriticalPcs(t) ==
    IF t = "watcher"
    THEN {"cb_cs"}
    ELSE {"ids_cs", "add_cs", "scan_free", "scan_assign", "hosts_cs", "mon_get",
          "mon_id_cs", "an_id_cs"}
AcquirePcs(t) ==
    IF t = "watcher"
    THEN {"cb_lock"}
    ELSE {"ids_acquire", "add_acquire", "scan_acquire", "scan_acquire2",
          "hosts_acquire", "mon_acquire"}
         \cup (IF sel # {} THEN {"mon_rows", "an_chart"} ELSE {})
Step(t) == IF t = "watcher" THEN WatcherStep ELSE MainStep \/ RunStep

\* C10: the lock is held only inside a critical section, whose holder can
\* always take its next step; no thread waits for the lock it holds; and a
\* running callback is never stuck: it, or the holder of the lock it waits
\* for, can step.
C10_NoDeadlockOnHostsLock ==
    /\ \A t \in Threads :
          /\ hosts_lock = t => pc[t] \in CriticalPcs(t) /\ ENABLED Step(t)
          /\ pc[t] \in AcquirePcs(t) => hosts_lock # t
          /\ pc[t] \notin CriticalPcs(t) => hosts_lock # t
    /\ pc["watcher"] # "idle" =>
          \/ ENABLED WatcherStep
          \/ hosts_lock = "main" /\ ENABLED MainStep

\* C10 witness: the callback waits for the lock while identifier resolution
\* holds it.
C10_Witness ==
    /\ pc["watcher"] = "cb_lock"
    /\ hosts_lock = "main"
    /\ pc["main"] = "ids_cs"

\* C11 as stated: once the engine has been stopped (quit or interrupt), every
\* worker thread started at construction has been told to stop.
C11_StopSignalsEveryWorker == pc["main"] = "done" => running = {}

\* The cleanup pass of quit or interrupt takes its last step.
CleanupFinishes == pc["main"] = "int_loop" /\ pc'["main"] = "done"

\* C12 as stated: when the cleanup pass has finished, no host is spoofed and
\* no shaping or block rule is left.
C12_CleanupLeavesNothing ==
    [][CleanupFinishes => spoofed' = {} /\ limited' = {}]_vars

\* C13 as stated: whenever run() has ended, the qdisc root handle it created
\* is deleted and the IP forwarding it enabled is disabled.
C13_StartupStateTornDown ==
    pc["main"] \in {"returned", "crashed"} => ~qdisc /\ ~ipfwd

\* The engine exists: MainMenu is being or has been constructed, or some
\* worker runs or holds a host.
EngineStarted ==
    \/ pc["main"] \notin {"run", "initialize", "returned"}
    \/ running # {}
    \/ spoofed # {} \/ limited # {}

\* C14: the engine is constructed and its workers started only when the
\* process is privileged and both the qdisc root handle and IP forwarding
\* were set up; otherwise no worker runs and no host is spoofed or shaped.
C14_EngineOnlyAfterSetup ==
    EngineStarted =>
        /\ env.linux /\ env.privileged /\ env.args_ok
        /\ env.qdisc_ok /\ env.fwd_ok

\* C14 witness: a privileged run whose root handle was created and whose
\* IP forwarding could not be enabled has returned without an engine.
C14_Witness ==
    /\ pc["main"] = "returned"
    /\ env.privileged /\ env.qdisc_ok /\ ~env.fwd_ok
    /\ running = {}

\* C15: adding a host equal to a registered one leaves the registry as it
\* is; adding any other host appends it as the last entry and leaves every
\* existing entry at its index.
C15_AddRejectsDuplicates ==
    [][pc["main"] = "add_cs" /\ pc'["main"] # "add_cs" =>
         \E h \in sel :
            /\ sel = {h}
            /\ IF h \in Range(hosts)
               THEN hosts' = hosts
               ELSE /\ Len(hosts') = Len(hosts) + 1
                    /\ hosts'[Len(hosts')] = h
                    /\ \A i \in 1..Len(hosts) : hosts'[i] = hosts[i]]_vars

\* C15 witness: the add handler holds the lock with a host that is
\* already registered.
C15_Witness ==
    /\ pc["main"] = "add_cs"
    /\ hosts_lock = "main"
    /\ sel # {}
    /\ sel \subseteq Range(hosts)

\* The registered hosts an identifier names: the one at a decimal index
\* within range, or those with that address or hardware address.
Named(t, hs) ==
    IF t \in Digits
    THEN {hs[i] : i \in {j \in 1..Len(hs) : ToString(j - 1) = t}}
    ELSE {h \in Range(hs) : h.ip = t \/ h.mac = t}

\* C16 as stated: resolution of "all" gives every registered host; of a
\* list whose identifiers each name a registered host, one named host per
\* identifier; of a list with an identifier that names none, a not-found
\* failure and no host.
C16_ResolutionAllOrNothing ==
    pc["main"] = "ids_cs" =>
        \A ids \in IdsStrings :
           LET r == GetHostsByIds(ids, hosts)
           IN /\ ~r.raised
              /\ IF ids = <<"all">>
                 THEN r.ok /\ r.hosts = Range(hosts)
                 ELSE IF \A k \in 1..Len(ids) : Named(ids[k], hosts) # {}
                 THEN /\ r.ok
                      /\ \A k \in 1..Len(ids) : r.hosts \cap Named(ids[k], hosts) # {}
                      /\ \A h \in r.hosts : \E k \in 1..Len(ids) : h \in Named(ids[k], hosts)
                 ELSE ~r.ok /\ r.hosts = {}

\* C17 as stated: when the free command has freed its last host, none of
\* the hosts it freed is a registry entry.
C17_FreedHostLeavesRegistry ==
    [][pc["main"] = "fanout" /\ cmd = "free" /\ pc'["main"] = "prompt" =>
         sel \cap Range(hosts') = {}]_vars

\* The main thread's step ends a command that failed: unresolvable
\* identifiers, an invalid rate, address or range.
FailingCommandEnds ==
    \/ /\ pc["main"] = "ids_cs"
       /\ cmd \in {"limit", "free", "watch_add", "watch_remove"}
       /\ pc'["main"] # "fanout"
    \/ pc["main"] \in {"add_error", "scan_error"} /\ pc'["main"] # pc["main"]
    \/ pc["main"] = "prompt" /\ pc'["main"] = "crashed"

\* C18 as stated: a failing command changes neither the registry nor any
\* worker's per-host state, and the menu reads the next command.
C18_FailingCommandChangesNothing ==
    [][FailingCommandEnds =>
         /\ hosts' = hosts
         /\ workers' = workers
         /\ pc'["main"] = "prompt"]_vars

\* C19 as stated: no read of BandwidthMonitor.get by the monitor or the
\* analyze command ends in an unhandled failure.
C19_AbsentSampleIsNoFault ==
    [][pc["main"] \in {"mon_get", "an_get"} => pc'["main"] # "crashed"]_vars

\* The callback's step is its call of ARPSpoofer.add(new).
CbAddsNew ==
    /\ pc["watcher"] = "cb_calls"
    /\ Len(cb_log') = Len(cb_log) + 1
    /\ cb_log'[Len(cb_log')].op = "arp_spoofer.add"

\* C20 as stated: the callback leaves new spoofed if and only if old was
\* spoofed when the callback replaced it.
C20_ReplaceCreatesNoSpoofing ==
    [][CbAddsNew => (cb_new \in spoofed' <=> was_spoofed)]_vars

\* The main thread's step is _free_handler's call of _free_host for one
\* resolved host; that host is the one leaving sel.
FreeCommandFrees(h) ==
    /\ pc["main"] = "fanout"
    /\ cmd = "free"
    /\ h \in sel
    /\ h \notin sel'

\* C21 as stated: once the free command has freed a host, no worker tracks
\* it: it is not spoofed, has no rule, has no sample entry and is not
\* watched, whatever its state was before.
C21_FreedHostIsUntracked ==
    [][\A h \in Host : FreeCommandFrees(h) =>
         h \notin spoofed' \cup limited' \cup monitored' \cup watched']_vars

\* The position of the first call of operation op in a sequence of calls,
\* 0 when there is none.
FirstCall(calls, op) ==
    IF \E k \in 1..Len(calls) : calls[k].op = op
    THEN CHOOSE k \in 1..Len(calls) :
             calls[k].op = op /\ \A j \in 1..(k - 1) : calls[j].op # op
    ELSE 0

C23_ScanReplacesAndFrees ==
    [][pc["main"] = "scan_assign" /\ pc'["main"] = "prompt" =>
         /\ hosts' \in ScanResults
         /\ Range(hosts) \cap (spoofed' \cup limited' \cup monitored') = {}]_vars

\* C28: the host cleanup pass begins at most once, it is never blocked, and
\* when it has run CommandMenu.start has returned with the pass run exactly
\* once; from the moment the pass begins (quit command or keyboard
\* interrupt at the prompt) the main thread reads and processes no command.
C28_LoopEndsWithOneCleanup ==
    /\ [](cleanups <= 1)
    /\ [](pc["main"] = "done" => cleanups = 1)
    /\ [](pc["main"] = "int_loop" => ENABLED (IntFree \/ IntDone))
    /\ [][cleanups = 1 => pc'["main"] \in {"int_loop", "done", "returned"}]_vars

\* start() has returned after a cleanup pass over a registry with a host.
C28_Witness ==
    /\ pc["main"] = "done"
    /\ cleanups = 1
    /\ hosts # <<>>

\* The command line has been parsed and its handlers have run.
Handled == stage = "handled"

\* C24: the direction _block_handler derives from a parsed command line is
\* never NONE: OUTGOING when only --upload occurs, INCOMING when only
\* --download occurs, BOTH when both or neither occur.
C24_DirectionNeverNone ==
    Handled /\ parsed.ok /\ command # <<>> /\ command[1] = "b" =>
        LET up == "--upload" \in Range(command)
            down == "--download" \in Range(command)
        IN  /\ direction # NONE
            /\ direction = IF up /\ ~down THEN OUTGOING
                           ELSE IF down /\ ~up THEN INCOMING
                           ELSE BOTH

\* A block command with --upload alone has been handled.
C24_Witness ==
    /\ Handled
    /\ command = <<"b", "0", "--upload">>
    /\ direction = OUTGOING

\* The parser a command line is dispatched to: while the first remaining
\* token is the identifier of a subparser, the first such subparser takes
\* the tokens after it.  handlers lists the subparsers' handlers, outermost
\* first.
RECURSIVE Dispatch(_, _, _)
Dispatch(p, tokens, handlers) ==
    LET sps == {k \in 1..Len(Parsers[p].subparsers) :
                  tokens # <<>> /\ Parsers[p].subparsers[k].identifier = tokens[1]}
    IN  IF sps = {}
        THEN [p |-> p, rest |-> tokens, handlers |-> handlers]
        ELSE LET sp == Parsers[p].subparsers[First(sps)]
             IN  Dispatch(sp.subparser, Tail(tokens), Append(handlers, sp.handler))

FlagIds(p, type) ==
    {fc.identifier : fc \in {x \in Range(Parsers[p].flag_commands) : x.type = type}}

\* What the i-th token is to parser p: the value of a parameterized flag
\* when it immediately follows one, otherwise a parameterized flag or a
\* plain flag when it is the identifier of one, otherwise a positional
\* token.
RECURSIVE Role(_, _, _)
Role(p, tokens, i) ==
    IF i > 1 /\ Role(p, tokens, i - 1) = "pflag"
    THEN "value"
    ELSE IF tokens[i] \in FlagIds(p, "PARAMETERIZED_FLAG_COMMAND")
    THEN "pflag"
    ELSE IF tokens[i] \in FlagIds(p, "FLAG_COMMAND")
    THEN "flag"
    ELSE "pos"

\* The positional tokens among the first i tokens, in order.
RECURSIVE Positionals(_, _, _)
Positionals(p, tokens, i) ==
    IF i = 0
    THEN <<>>
    ELSE IF Role(p, tokens, i) = "pos"
    THEN Append(Positionals(p, tokens, i - 1), tokens[i])
    ELSE Positionals(p, tokens, i - 1)

\* C25: parse yields no result and invokes no handler when the parser the
\* command line is dispatched to gets more positional tokens than it has
\* parameters, or fewer, or a parameterized flag as its last token.
C25_ParseErrorsYieldNothing ==
    stage \in {"handled", "crashed"} =>
        LET d == Dispatch("parser", command, <<>>)
            n == Len(d.rest)
            pos == Positionals(d.p, d.rest, n)
            params == Parsers[d.p].parameter_commands
        IN  \/ Len(pos) > Len(params)
            \/ Len(pos) < Len(params)
            \/ n > 0 /\ Role(d.p, d.rest, n) = "pflag"
            => ~parsed.ok /\ parsed.handled = <<>>

\* 'ad 0 --mac': the parameterized flag is the last token.
C25_Witness ==
    /\ Handled
    /\ command = <<"ad", "0", "--mac">>
    /\ ~parsed.ok

\* The last of a set of positions.
Last(S) == CHOOSE k \in S : \A j \in S : j <= k

\* The fields the C26 wording gives a successful parse by parser p.
ExpectedFields(p, tokens) ==
    LET n == Len(tokens)
        pos == Positionals(p, tokens, n)
        params == Parsers[p].parameter_commands
    IN  [name \in Names(p) |->
           IF \E fc \in Range(Parsers[p].flag_commands) : fc.name = name
           THEN LET fc == CHOOSE x \in Range(Parsers[p].flag_commands) : x.name = name
                    occ == {i \in 1..n : /\ tokens[i] = fc.identifier
                                         /\ Role(p, tokens, i) \in {"flag", "pflag"}}
                IN  IF fc.type = "FLAG_COMMAND"
                    THEN IF occ # {} THEN True ELSE False
                    ELSE IF occ # {} /\ Last(occ) < n
                    THEN Str(tokens[Last(occ) + 1])
                    ELSE None
           ELSE LET k == CHOOSE j \in 1..Len(params) : params[j] = name
                IN  IF k <= Len(pos) THEN Str(pos[k]) ELSE None]

\* C26: a successful parse has exactly one field per declared name; a plain
\* flag is True exactly when its identifier occurred, a parameterized flag
\* holds the token after its identifier, whatever that token is, or None,
\* and the parameters hold the remaining tokens in declaration order.
C26_ResultFields ==
    stage \in {"handled", "crashed"} /\ parsed.ok =>
        LET d == Dispatch("parser", command, <<>>)
        IN  /\ DOMAIN parsed.fields = Names(d.p)
            /\ parsed.fields = ExpectedFields(d.p, d.rest)
            /\ Len(Positionals(d.p, d.rest, Len(d.rest)))
                 = Len(Parsers[d.p].parameter_commands)

\* 'ad --mac --mac 0': the value of --mac is the token '--mac'.
C26_Witness ==
    /\ Handled
    /\ command = <<"ad", "--mac", "--mac", "0">>
    /\ parsed.ok
    /\ parsed.fields["mac"] = Str("--mac")
    /\ parsed.fields["ip"] = Str("0")

C29_WatchSetChangesOnlyNamedSetting ==
    [][stage = "input" /\ stage' # "input" =>
         LET d == Dispatch("parser", command, <<>>)
             set == parsed'.ok /\ d.p = "w_set"
             attribute == IF set THEN Lower(parsed'.fields["attribute"].val) ELSE ""
             value == IF set THEN parsed'.fields["value"].val ELSE ""
         IN  /\ watch_cfg'.interval # watch_cfg.interval =>
                   set /\ attribute = "interval" /\ value \in Digits
             /\ watch_cfg'.iprange # watch_cfg.iprange =>
                   set /\ attribute \in {"range", "iprange", "ip_range"}]_vars

====
